---- MODULE Spec2Model ----
(***************************************************************************)
(* Model of the ALFA compiler service's language-server supervision layer: *)
(* AlfaCompiler (src/src/compiler.ts) and AlfaLanguageServerClient         *)
(* (src/unnamed/part_004, the current language-server-client.ts).          *)
(*                                                                         *)
(* The program runs on one Node.js event loop.  Every `await` of an I/O    *)
(* operation or timer ends an atomic step; the code between two awaits     *)
(* runs without interleaving.  Each action below is one such segment.      *)
(* Several compile calls may be in flight at once (one per HTTP request):  *)
(* the code takes no lock around them.                                     *)
(***************************************************************************)
EXTENDS Integers, Sequences, FiniteSets, TLC

\* ------------------------------------------------------------- bounds
MaxCalls == 2     \* compile calls issued over a behaviour
MaxEvents == 2    \* what the process does over a behaviour: pushes and file writes
MaxInits == 2     \* initialize() calls issued over a behaviour
MaxStops == 2     \* stop() calls issued over a behaviour
MaxDeleted == 1   \* notifyDeletedFile(s) calls issued over a behaviour
MaxClock == 2     \* milliseconds on the clock over a behaviour

Calls == 1..MaxCalls
Inits == 1..MaxInits
Stops == 1..MaxStops

\* ------------------------------------------------- program constants
ErrorSeverity == 1   \* `diag.severity === 1`

StatusOk == 200           \* `res.writeHead(200, ...)`
StatusBadRequest == 400   \* `res.writeHead(400, ...)` in the catch
StatusNoOutput == 500     \* `res.writeHead(500, ...)` on an empty result

\* -------------------------------------------------- the input files
FileA == "/p/a.alfa"
FileB == "/p/b.alfa"
DirD == "/p/dir"
Missing == "/p/none.alfa"

\* What fs.stat finds at a path.
InputKind(p) ==
    CASE p = FileA -> "file"
      [] p = FileB -> "file"
      [] p = DirD -> "dir"
      [] OTHER -> "missing"

\* The requests a caller makes: the entry point and its argument.
Requests ==
    { [entry |-> "compile", paths |-> <<FileA>>],
      [entry |-> "compile", paths |-> <<Missing>>],
      [entry |-> "compileFiles", paths |-> <<FileA, FileB>>],
      [entry |-> "compileFiles", paths |-> <<FileA, DirD>>],
      [entry |-> "compileFiles", paths |-> <<>>] }

\* ------------------------------------------------------- diagnostics
\* A Diagnostic: severity, range.start.line, range.start.character, message.
DiagErrA == [severity |-> ErrorSeverity, line |-> 0, character |-> 4, message |-> "m1"]
DiagWarn == [severity |-> ErrorSeverity + 1, line |-> 3, character |-> 0, message |-> "m2"]
DiagErrB == [severity |-> ErrorSeverity, line |-> 7, character |-> 2, message |-> "m3"]

\* The diagnostic lists the process pushes.
DiagLists(uri) ==
    IF uri = "file:///p/a.alfa"
      THEN { <<>>, <<DiagWarn>>, <<DiagWarn, DiagErrA>> }
      ELSE { <<>>, <<DiagErrB>> }

\* ------------------------------------------------- the output files
OutA == "a.xml"
OutB == "b.xml"
OutFiles == {OutA, OutB}
NoFile == <<>>          \* no such entry; an entry is <<c>>, c the call it was written for
Stale == <<0>>          \* an artifact left by an earlier run of the service

\* The artifact the process generates for a document.
OutName(uri) == IF uri = "file:///p/a.alfa" THEN OutA ELSE OutB

\* A subdirectory of the output directory, left there by something else.
SubDir == "sub"

\* The order in which fs.readdir lists the directory's entries.
DirOrder == <<OutA, OutB, SubDir>>

\* The text the process writes to an artifact: the tags of the document, which
\* stand in the file with nothing between one tag's ">" and the next tag's "<".
RawXml(f) ==
    IF f = OutA
      THEN << "<Policy>", "<Target/>", "<Rule>", "<Desc>t</Desc>", "</Rule>", "</Policy>" >>
      ELSE << "<?xml?>", "</Stray>", "<PolicySet>", "</PolicySet>" >>

\* Which of formatXml's regular expressions a line matches.
LineClass(line) ==
    CASE line = "<Desc>t</Desc>" -> "inline"    \* /.+<\/\w[^>]*>$/
      [] line \in {"</Rule>", "</Policy>", "</Stray>", "</PolicySet>"} -> "close"  \* /^<\/\w/
      [] line \in {"<Policy>", "<Rule>", "<PolicySet>"} -> "open"  \* /^<\w[^>]*[^\/]>.*$/
      [] OTHER -> "other"

\* formatXml: one line per tag, each padded by the running depth.
RECURSIVE FormatLines(_, _)
FormatLines(lines, pad) ==
    IF lines = <<>> THEN <<>>
    ELSE LET line == Head(lines)
             cls == LineClass(line)
             pad1 == IF cls = "close" /\ pad > 0 THEN pad - 1 ELSE pad
             indent == IF cls = "open" THEN 1 ELSE 0
         IN  <<[pad |-> pad1, text |-> line]>> \o FormatLines(Tail(lines), pad1 + indent)

FormatXml(xml) == FormatLines(xml, 0)

\* ------------------------------------------------------------- state
VARIABLES
    isInitialized,  \* AlfaLanguageServerClient.isInitialized
    connOpen,       \* the connection to the process is open (the process lives)
    initPc,         \* per initialize() call: where it stands
    diagnostics,    \* AlfaLanguageServerClient.diagnostics, in insertion order
    outDir,         \* the output directory: file -> NoFile, or <<the call it was written for>>
    hasSubDir,      \* the output directory holds the subdirectory
    dirOk,          \* the output directory is there and can be listed
    sent,           \* the handshake and change messages handed to the connection
    pc,             \* per call: the await it stands at
    req,            \* per call: its request
    todo,           \* per call: what its current loop has left
    outputs,        \* per call: getCompilationOutput's `outputs`
    result,         \* per call: what it returned or threw
    nPush,          \* pushes received so far
    nWrite,         \* files written by the process so far
    serverProcess,  \* AlfaLanguageServerClient.serverProcess is not null
    stopPc,         \* per stop() call: where it stands
    stopLog,        \* what the stop() calls have done, in order
    service,        \* the service: "starting", "listening", "exited" or "crashed"
    now,            \* the clock Date.now() reads, in milliseconds
    policies,       \* the temporary input files in the policies directory
    hpc,            \* per HTTP request: the await its handler stands at
    hreq,           \* per HTTP request: what the client sent
    temps,          \* per HTTP request: filePath / tempFilePaths
    htodo,          \* per HTTP request: what its current loop has left
    responses       \* per HTTP request: the responses written to the client

vars == << isInitialized, connOpen, initPc, diagnostics, outDir, hasSubDir, dirOk, sent, pc, req,
           todo, outputs, result, nPush, nWrite, serverProcess, stopPc, stopLog,
           service, now, policies, hpc, hreq, temps, htodo, responses >>

\* What only stop() changes.
stopVars == << serverProcess, stopPc, stopLog >>

callVars == << pc, req, todo, outputs, result >>

\* What only the HTTP layer changes.
httpVars == << service, now, policies, hpc, hreq, temps, htodo, responses >>

NoHttp == [url |-> "none"]

NoRequest == [entry |-> "none", paths |-> <<>>]
NoResult == [kind |-> "none"]

Init ==
    /\ isInitialized = FALSE
    /\ connOpen = TRUE
    /\ initPc = [i \in Inits |-> "none"]
    /\ diagnostics = <<>>
    /\ outDir \in [OutFiles -> {NoFile, Stale}]
    /\ hasSubDir \in BOOLEAN
    /\ dirOk = TRUE
    /\ sent = <<>>
    /\ pc = [c \in Calls |-> "idle"]
    /\ req = [c \in Calls |-> NoRequest]
    /\ todo = [c \in Calls |-> <<>>]
    /\ outputs = [c \in Calls |-> <<>>]
    /\ result = [c \in Calls |-> NoResult]
    /\ nPush = 0
    /\ nWrite = 0
    /\ serverProcess = TRUE
    /\ stopPc = [s \in Stops |-> "idle"]
    /\ stopLog = <<>>
    /\ service = "starting"
    /\ now = 1
    /\ policies = {}
    /\ hpc = [h \in Calls |-> "none"]
    /\ hreq = [h \in Calls |-> NoHttp]
    /\ temps = [h \in Calls |-> <<>>]
    /\ htodo = [h \in Calls |-> <<>>]
    /\ responses = [h \in Calls |-> <<>>]

\* ----------------------------------------------------------- helpers
\* A faulty Map.prototype.clear, which leaves the entries in place.
MapKeep(m) == m

\* Map.prototype.clear
MapClear(m) == <<>>

\* A faulty Map.prototype.set, which adds the new list to the one stored.
MapSetMerged(m, entry) ==
    IF \E i \in DOMAIN m : m[i].uri = entry.uri
      THEN [i \in DOMAIN m |->
              IF m[i].uri = entry.uri
                THEN [entry EXCEPT !.diags = m[i].diags \o entry.diags]
                ELSE m[i]]
      ELSE Append(m, entry)

\* Map.prototype.set: an existing key keeps its place, a new key goes last.
MapSet(m, entry) ==
    IF \E i \in DOMAIN m : m[i].uri = entry.uri
      THEN [i \in DOMAIN m |-> IF m[i].uri = entry.uri THEN entry ELSE m[i]]
      ELSE Append(m, entry)

\* A faulty isReady(), which reports ready whatever the flag says.
IsReadyAlways == TRUE

\* isReady(): `this.connection` is assigned in the constructor and never null.
IsReady == isInitialized

\* URI.file(path).toString()
FileUri(p) == "file://" \o p

NoError == [kind |-> "none"]

\* A faulty check of one input path, which only looks whether the path exists.
StatErrorMissingOnly(p) ==
    IF InputKind(p) = "missing"
      THEN [kind |-> "ENOENT", text |-> "no such file or directory", path |-> p]
      ELSE NoError

\* AlfaCompiler's check of one input path: what it throws, if anything.
StatError(p) ==
    CASE InputKind(p) = "missing" ->
             [kind |-> "ENOENT", text |-> "no such file or directory", path |-> p]
      [] InputKind(p) # "file" ->
             [kind |-> "NotAFile", text |-> "Input path is not a file", path |-> p]
      [] OTHER -> NoError

\* A faulty order of statements: the map is cleared before the path is checked.
DiagnosticsClearedFirst(d, err, last) == MapClear(d)

\* The diagnostics map after the continuation of one fs.stat: the throw leaves
\* it alone, and so does the loop going on to the next path; after the last
\* path the client's compile is entered, whose first statement clears it.
DiagnosticsAfterStat(d, err, last) ==
    IF err # NoError THEN d ELSE IF last THEN MapClear(d) ELSE d

\* A faulty didChangeWatchedFiles, which sends one notification per file.
ChangeNotificationsPerFile(uri, type, c) ==
    [i \in DOMAIN uri |->
        [method |-> "workspace/didChangeWatchedFiles",
         changes |-> << [uri |-> FileUri(uri[i]), type |-> type] >>,
         call |-> c]]

\* didChangeWatchedFiles: the messages handed to connection.sendNotification.
ChangeNotifications(uri, type, c) ==
    << [method |-> "workspace/didChangeWatchedFiles",
        changes |-> [i \in DOMAIN uri |-> [uri |-> FileUri(uri[i]), type |-> type]],
        call |-> c] >>

\* A faulty branch for a single path, which reports the file as created.
ChangeNotificationCreated(uri, type, c) ==
    << [method |-> "workspace/didChangeWatchedFiles",
        changes |-> << [uri |-> FileUri(uri), type |-> "Created"] >>,
        call |-> c] >>

\* didChangeWatchedFiles with a string for `uri`: the branch for a single path.
ChangeNotification(uri, type, c) ==
    << [method |-> "workspace/didChangeWatchedFiles",
        changes |-> << [uri |-> FileUri(uri), type |-> type] >>,
        call |-> c] >>

\* Array.from(this.diagnostics.values()).flat()
RECURSIVE Flat(_)
Flat(m) == IF m = <<>> THEN <<>> ELSE Head(m).diags \o Flat(Tail(m))

\* A faulty filter, which lets warnings through as well.
IsErrorOrWarning(diag) == diag.severity <= ErrorSeverity + 1

IsErrorDiag(diag) == diag.severity = ErrorSeverity

\* A faulty error check, which finds no error whatever is stored.
ErrorDiagnosticsNone(m) == <<>>

\* allDiagnostics.filter((diag) => diag.severity === 1), behind `size > 0`.
ErrorDiagnostics(m) ==
    IF Len(m) > 0 THEN SelectSeq(Flat(m), IsErrorDiag) ELSE <<>>

\* A faulty entry of errorMessages, which keeps the 0-based position.
ErrorLineZeroBased(diag) ==
    [line |-> diag.line, col |-> diag.character, message |-> diag.message]

\* One entry of errorMessages: `Line ${line + 1}, Col ${character + 1}: ${message}`.
ErrorLine(diag) ==
    [line |-> diag.line + 1, col |-> diag.character + 1, message |-> diag.message]

\* `Compilation failed with errors:\n${errorMessages.join("\n")}`
ErrorOutput(errs) ==
    [header |-> "Compilation failed with errors:",
     lines |-> [i \in DOMAIN errs |-> ErrorLine(errs[i])]]

\* fs.readdir of the output directory.
IsPresent(f) == IF f = SubDir THEN hasSubDir ELSE outDir[f] # NoFile

\* fs.unlink and fs.readFile fail on an entry that is gone or is a directory.
IsFile(f) == dirOk /\ f # SubDir /\ outDir[f] # NoFile
Listing == SelectSeq(DirOrder, IsPresent)

\* A call returns or throws.
Finish(c, res) ==
    /\ pc' = [pc EXCEPT ![c] = "done"]
    /\ result' = [result EXCEPT ![c] = res]
    /\ todo' = [todo EXCEPT ![c] = <<>>]
    /\ outputs' = [outputs EXCEPT ![c] = <<>>]

\* A call goes on to its next await.
Goto(c, where, rest) ==
    /\ pc' = [pc EXCEPT ![c] = where]
    /\ todo' = [todo EXCEPT ![c] = rest]
    /\ UNCHANGED << result, outputs >>

Thrown(kind, at, error) == [kind |-> kind, at |-> at, error |-> error]
Returned(out) == [kind |-> "Success", at |-> "return", output |-> out]

\* ------------------------------------------------- the compile calls
\* A caller invokes AlfaCompiler.compile or compileFiles.  The call runs to its
\* first await: compileFiles throws on an empty list; otherwise the first
\* fs.stat is under way.  `others` is the number of other calls the caller
\* lets be in flight at that moment.
Invoke(c, r, others) ==
    /\ pc[c] = "idle"
    /\ \A d \in Calls : d < c => pc[d] # "idle"
    /\ Cardinality({d \in Calls : pc[d] \notin {"idle", "returned"}}) <= others
    /\ req' = [req EXCEPT ![c] = r]
    /\ IF r.paths = <<>>
         THEN Finish(c, Thrown("NoFiles", "validate",
                               [text |-> "No files provided for compilation"]))
         ELSE Goto(c, "validate", r.paths)
    /\ UNCHANGED << isInitialized, connOpen, initPc, diagnostics, outDir, sent,
                    nPush, nWrite, hasSubDir, dirOk >>
    /\ UNCHANGED stopVars
    /\ UNCHANGED httpVars

\* An fs.stat completes.  A path that is missing or no regular file makes the
\* call throw.  After the last path the client's compile/compileFiles is
\* entered: it clears the map and starts reading the output directory.
StatDone(c) ==
    /\ pc[c] = "validate"
    /\ LET err == StatError(Head(todo[c]))
           last == Len(todo[c]) = 1
       IN  /\ diagnostics' = DiagnosticsAfterStat(diagnostics, err, last)
           /\ IF err # NoError
                THEN Finish(c, Thrown(err.kind, "validate", err))
                ELSE IF last
                  THEN /\ pc' = [pc EXCEPT ![c] = "pre_readdir"]
                       /\ todo' = [todo EXCEPT ![c] = <<>>]
                                          /\ UNCHANGED << result, outputs >>
                  ELSE Goto(c, "validate", Tail(todo[c]))
    /\ UNCHANGED << isInitialized, connOpen, initPc, outDir, sent, req, nPush, nWrite, hasSubDir, dirOk >>
    /\ UNCHANGED stopVars
    /\ UNCHANGED httpVars

\* The pre-cycle clear is over: the ready check, then the change notification.
NotifyOrReject(c) ==
    IF ~IsReady
      THEN /\ Finish(c, Thrown("NotReady", "ready",
                      [text |-> "Language server is not initialized"]))
           /\ UNCHANGED sent
      ELSE /\ sent' = sent \o (IF req[c].entry = "compile"
                                  THEN ChangeNotification(req[c].paths[1], "Changed", c)
                                  ELSE ChangeNotifications(req[c].paths, "Changed", c))
           /\ Goto(c, "settle", <<>>)

\* A faulty clearCompilationOutputDir without its try/catch: the error of
\* fs.readdir or fs.unlink reaches the caller as it is.
CleanupErrorUnwrapped(at) ==
    Thrown("ENOENT", at, [text |-> "no such file or directory"])

\* clearCompilationOutputDir's catch.
CleanupError(at) ==
    Thrown("CleanupError", at, [text |-> "Failed to clean old output files"])

\* clearCompilationOutputDir before the cycle: fs.readdir completes.
PreReaddirDone(c) ==
    /\ pc[c] = "pre_readdir"
    /\ IF ~dirOk
         THEN /\ Finish(c, CleanupError("pre_readdir"))
              /\ UNCHANGED sent
         ELSE IF Listing = <<>>
           THEN NotifyOrReject(c)
           ELSE /\ Goto(c, "pre_unlink", Listing)
                /\ UNCHANGED sent
    /\ UNCHANGED << isInitialized, connOpen, initPc, diagnostics, outDir, req,
                    nPush, nWrite, hasSubDir, dirOk >>
    /\ UNCHANGED stopVars
    /\ UNCHANGED httpVars

\* clearCompilationOutputDir before the cycle: one fs.unlink completes.  An
\* entry that is gone by now (ENOENT) makes the clear throw.
PreUnlinkDone(c) ==
    /\ pc[c] = "pre_unlink"
    /\ LET f == Head(todo[c]) IN
       IF ~IsFile(f)
         THEN /\ Finish(c, CleanupError("pre_unlink"))
              /\ UNCHANGED << outDir, sent >>
         ELSE /\ outDir' = [outDir EXCEPT ![f] = NoFile]
              /\ IF Len(todo[c]) = 1
                   THEN NotifyOrReject(c)
                   ELSE /\ Goto(c, "pre_unlink", Tail(todo[c]))
                        /\ UNCHANGED sent
    /\ UNCHANGED << isInitialized, connOpen, initPc, diagnostics, req, nPush, nWrite, hasSubDir, dirOk >>
    /\ UNCHANGED stopVars
    /\ UNCHANGED httpVars

\* A faulty wait, which goes on until some diagnostics are stored.
DelayAwaitsDiagnostics(d) == d # <<>>

\* delay(afterDidChangeWatchedFilesDelay): the timer fires, whatever has or
\* has not arrived.
DelayElapsed(d) == TRUE

\* sendNotification has resolved and the settle delay has elapsed: the error
\* check, then getCompilationOutput starts reading the output directory.
SettleElapsed(c) ==
    /\ pc[c] = "settle"
    /\ DelayElapsed(diagnostics)
    /\ LET errs == ErrorDiagnostics(diagnostics) IN
       IF Len(errs) > 0
         THEN Finish(c, Thrown("CompilationError", "check", ErrorOutput(errs)))
         ELSE Goto(c, "read_readdir", <<>>)
    /\ UNCHANGED << isInitialized, connOpen, initPc, diagnostics, outDir, sent, req,
                    nPush, nWrite, hasSubDir, dirOk >>
    /\ UNCHANGED stopVars
    /\ UNCHANGED httpVars

\* getCompilationOutput's outer catch.
ReadDirError ==
    Thrown("ReadDirError", "read_readdir", [text |-> "Failed to read output directory"])

\* getCompilationOutput: fs.readdir completes.  A directory that cannot be
\* listed fails the read.  With nothing to read the
\* outputs are returned and the post-read clear starts.
ReadReaddirDone(c) ==
    /\ pc[c] = "read_readdir"
    /\ IF ~dirOk
         THEN Finish(c, ReadDirError)
         ELSE IF Listing = <<>>
           THEN Goto(c, "post_readdir", <<>>)
           ELSE Goto(c, "read_file", Listing)
    /\ UNCHANGED << isInitialized, connOpen, initPc, diagnostics, outDir, sent, req,
                    nPush, nWrite, hasSubDir, dirOk >>
    /\ UNCHANGED stopVars
    /\ UNCHANGED httpVars

\* A faulty outputs.push, which gives the path for the name.
CompiledFileFullPath(f) ==
    [fileName |-> "src-gen/" \o f, content |-> FormatXml(RawXml(f)),
     cause |-> outDir[f][1]]

\* One element of getCompilationOutput's result.
CompiledFile(f) ==
    [fileName |-> f, content |-> FormatXml(RawXml(f)), cause |-> outDir[f][1]]

\* getCompilationOutput: one fs.readFile completes.  A file that cannot be
\* read is logged and skipped.
ReadFileDone(c) ==
    /\ pc[c] = "read_file"
    /\ pc' = [pc EXCEPT ![c] = IF Len(todo[c]) = 1 THEN "post_readdir" ELSE "read_file"]
    /\ todo' = [todo EXCEPT ![c] = Tail(@)]
    /\ LET f == Head(todo[c]) IN
       outputs' = [outputs EXCEPT ![c] =
                     IF ~IsFile(f) THEN @ ELSE Append(@, CompiledFile(f))]
    /\ UNCHANGED result
    /\ UNCHANGED << isInitialized, connOpen, initPc, diagnostics, outDir, sent, req,
                    nPush, nWrite, hasSubDir, dirOk >>
    /\ UNCHANGED stopVars
    /\ UNCHANGED httpVars

\* clearCompilationOutputDir after the read: fs.readdir completes.
PostReaddirDone(c) ==
    /\ pc[c] = "post_readdir"
    /\ IF ~dirOk
         THEN Finish(c, CleanupError("post_readdir"))
         ELSE IF Listing = <<>>
           THEN Finish(c, Returned(outputs[c]))
           ELSE Goto(c, "post_unlink", Listing)
    /\ UNCHANGED << isInitialized, connOpen, initPc, diagnostics, outDir, sent, req,
                    nPush, nWrite, hasSubDir, dirOk >>
    /\ UNCHANGED stopVars
    /\ UNCHANGED httpVars

\* clearCompilationOutputDir after the read: one fs.unlink completes.
PostUnlinkDone(c) ==
    /\ pc[c] = "post_unlink"
    /\ LET f == Head(todo[c]) IN
       IF ~IsFile(f)
         THEN /\ Finish(c, CleanupError("post_unlink"))
              /\ UNCHANGED outDir
         ELSE /\ outDir' = [outDir EXCEPT ![f] = NoFile]
              /\ IF Len(todo[c]) = 1
                   THEN Finish(c, Returned(outputs[c]))
                   ELSE Goto(c, "post_unlink", Tail(todo[c]))
    /\ UNCHANGED << isInitialized, connOpen, initPc, diagnostics, sent, req, nPush, nWrite, hasSubDir, dirOk >>
    /\ UNCHANGED stopVars
    /\ UNCHANGED httpVars

\* The caller takes what the call returned or threw.
Return(c) ==
    /\ pc[c] = "done"
    /\ pc' = [pc EXCEPT ![c] = "returned"]
    /\ req' = [req EXCEPT ![c] = NoRequest]
    /\ result' = [result EXCEPT ![c] = NoResult]
    /\ UNCHANGED << isInitialized, connOpen, initPc, diagnostics, outDir, sent, todo,
                    outputs, nPush, nWrite, hasSubDir, dirOk >>
    /\ UNCHANGED stopVars
    /\ UNCHANGED httpVars

\* handleCompileRequest, once the upload is stored: the response it writes
\* for what compileFile returned or threw.
CompileResponse(res) ==
    IF res.kind = "Success"
      THEN IF Len(res.output) = 0
             THEN [status |-> StatusNoOutput,
                   body |-> [error |-> "Compilation produced no output"]]
             ELSE [status |-> StatusOk,
                   body |-> [success |-> TRUE, output |-> res.output]]
      ELSE [status |-> StatusBadRequest, body |-> [error |-> res.error]]

\* ------------------------------------------------------- initialize
\* A request that is pending when the connection goes is rejected.
Rejected(pcs, pending, failed) ==
    [x \in DOMAIN pcs |-> IF pcs[x] = pending THEN failed ELSE pcs[x]]

\* initialize(): the guard on the flag, then the "initialize" request is
\* sent; on a connection that is gone the request is rejected.
InitializeCall(i) ==
    /\ initPc[i] = "none"
    /\ \A j \in Inits : j < i => initPc[j] # "none"
    /\ IF isInitialized
         THEN initPc' = [initPc EXCEPT ![i] = "already"] /\ UNCHANGED sent
         ELSE IF ~connOpen
           THEN initPc' = [initPc EXCEPT ![i] = "failed"] /\ UNCHANGED sent
           ELSE /\ initPc' = [initPc EXCEPT ![i] = "requested"]
                /\ sent' = Append(sent, [method |-> "initialize", changes |-> <<>>,
                                         call |-> 0])
    /\ UNCHANGED << isInitialized, connOpen, diagnostics, outDir, nPush, nWrite, hasSubDir, dirOk >>
    /\ UNCHANGED callVars
    /\ UNCHANGED stopVars
    /\ UNCHANGED httpVars

\* The response arrives: the flag is set and "initialized" is sent; the call
\* awaits the write of the notification and then the post-handshake delay.
InitializeResponse(i) ==
    /\ initPc[i] = "requested"
    /\ connOpen
    /\ isInitialized' = TRUE
    /\ initPc' = [initPc EXCEPT ![i] = "settling"]
    /\ sent' = Append(sent, [method |-> "initialized", changes |-> <<>>, call |-> 0])
    /\ UNCHANGED << connOpen, diagnostics, outDir, nPush, nWrite, hasSubDir, dirOk >>
    /\ UNCHANGED callVars
    /\ UNCHANGED stopVars
    /\ UNCHANGED httpVars

\* The process answers the "initialize" request with an error: the await
\* throws and the catch rethrows "Failed to initialize language server".
InitializeRejected(i) ==
    /\ initPc[i] = "requested"
    /\ connOpen
    /\ initPc' = [initPc EXCEPT ![i] = "failed"]
    /\ UNCHANGED << isInitialized, connOpen, diagnostics, outDir, sent, nPush, nWrite,
                    hasSubDir, dirOk >>
    /\ UNCHANGED callVars
    /\ UNCHANGED stopVars
    /\ UNCHANGED httpVars

\* The write of the "initialized" notification fails (the process has closed
\* its input): the await throws and the catch rethrows "Failed to initialize
\* language server".  The catch resets nothing.
InitializedSendFailed(i) ==
    /\ initPc[i] = "settling"
    /\ connOpen
    /\ initPc' = [initPc EXCEPT ![i] = "failed"]
    /\ UNCHANGED << isInitialized, connOpen, diagnostics, outDir, sent, nPush, nWrite,
                    hasSubDir, dirOk >>
    /\ UNCHANGED callVars
    /\ UNCHANGED stopVars
    /\ UNCHANGED httpVars

\* The post-handshake delay has elapsed: initialize() returns the result.
InitializeReturn(i) ==
    /\ initPc[i] = "settling"
    /\ initPc' = [initPc EXCEPT ![i] = "answered"]
    /\ UNCHANGED << isInitialized, connOpen, diagnostics, outDir, sent, nPush, nWrite,
                    hasSubDir, dirOk >>
    /\ UNCHANGED callVars
    /\ UNCHANGED stopVars
    /\ UNCHANGED httpVars

\* A faulty onClose handler, which ends the cycles that await their settle
\* delay.
OnCloseEndsCycles(p) ==
    [c \in DOMAIN p |-> IF p[c] = "settle" THEN "done" ELSE p[c]]

\* What the onClose handler does about the compile calls: nothing.
OnCloseCalls(p) == p

\* The connection closes (the process has exited): onClose clears the flag;
\* the pending requests are rejected: initialize() throws, stop() catches.
ConnectionClosed ==
    /\ connOpen
    /\ connOpen' = FALSE
    /\ isInitialized' = FALSE
    /\ initPc' = Rejected(initPc, "requested", "failed")
    /\ stopPc' = Rejected(stopPc, "shutdown", "returned")
    /\ pc' = OnCloseCalls(pc)
    /\ UNCHANGED << diagnostics, outDir, sent, nPush, nWrite, hasSubDir, dirOk >>
    /\ UNCHANGED << serverProcess, stopLog >>
    /\ UNCHANGED httpVars
    /\ UNCHANGED << req, todo, outputs, result >>

\* ------------------------------------------------------ the process
\* The Changed notifications the process has been sent.
ChangeBatches ==
    { n \in DOMAIN sent : sent[n].method = "workspace/didChangeWatchedFiles" }

\* The process publishes diagnostics for a document of a batch; the
\* notification handler stores them.
PublishDiagnostics(n, k, ds) ==
    /\ connOpen
    /\ \E c \in Calls : pc[c] # "returned"
    /\ nPush + nWrite < MaxEvents
    /\ nPush' = nPush + 1
    /\ diagnostics' = MapSet(diagnostics,
           [uri |-> sent[n].changes[k].uri, diags |-> ds,
            cause |-> sent[n].call])
    /\ diagnostics' # diagnostics
    /\ UNCHANGED << isInitialized, connOpen, initPc, outDir, sent, nWrite, hasSubDir, dirOk >>
    /\ UNCHANGED callVars
    /\ UNCHANGED stopVars
    /\ UNCHANGED httpVars

\* The process writes the artifact of an input file of a batch.
WriteOutput(n, k) ==
    /\ connOpen
    /\ dirOk
    /\ \E c \in Calls : pc[c] # "returned"
    /\ nPush + nWrite < MaxEvents
    /\ nWrite' = nWrite + 1
    /\ outDir' = [outDir EXCEPT ![OutName(sent[n].changes[k].uri)] = <<sent[n].call>>]
    /\ outDir' # outDir
    /\ UNCHANGED << isInitialized, connOpen, initPc, diagnostics, sent, nPush, hasSubDir, dirOk >>
    /\ UNCHANGED callVars
    /\ UNCHANGED stopVars
    /\ UNCHANGED httpVars

\* Something else removes the output directory, and what it held with it.
DirectoryLost ==
    /\ dirOk
    /\ \E c \in Calls : pc[c] # "returned"
    /\ dirOk' = FALSE
    /\ outDir' = [f \in OutFiles |-> NoFile]
    /\ hasSubDir' = FALSE
    /\ UNCHANGED << isInitialized, connOpen, initPc, diagnostics, sent, nPush, nWrite >>
    /\ UNCHANGED callVars
    /\ UNCHANGED stopVars
    /\ UNCHANGED httpVars

\* -------------------------------------------------------------- stop
StopEvent(s, ev) == [stop |-> s, ev |-> ev]

\* A faulty end of stop(), which kills the process before it disposes of the
\* connection.
TeardownKillsFirst(s, graceful, handle) ==
    (IF handle THEN << StopEvent(s, "kill") >> ELSE <<>>)
       \o (IF graceful THEN << StopEvent(s, "dispose") >> ELSE <<>>)

\* What the end of stop() does: connection.dispose() on the graceful path,
\* then serverProcess.kill() if there is a handle.
TeardownEvents(s, graceful, handle) ==
    (IF graceful THEN << StopEvent(s, "dispose") >> ELSE <<>>)
       \o (IF handle THEN << StopEvent(s, "kill") >> ELSE <<>>)

\* The end of stop(): dispose, kill, then the handle, the flag and the map
\* are reset.  With the connection disposed of or the process killed no
\* message is handled any more, and the requests still pending are rejected.
Teardown(s, graceful) ==
    /\ stopLog' = stopLog \o TeardownEvents(s, graceful, serverProcess)
    /\ serverProcess' = FALSE
    /\ isInitialized' = FALSE
    /\ diagnostics' = MapClear(diagnostics)
    /\ connOpen' = FALSE
    /\ initPc' = Rejected(initPc, "requested", "failed")
    /\ stopPc' = [Rejected(stopPc, "shutdown", "returned") EXCEPT ![s] = "returned"]

\* stop() is called.  On a ready client the shutdown request is sent;
\* otherwise the graceful part is skipped and stop() runs to its end.
StopCall(s) ==
    /\ stopPc[s] = "idle"
    /\ \A t \in Stops : t < s => stopPc[t] # "idle"
    /\ IF IsReady
         THEN /\ stopPc' = [stopPc EXCEPT ![s] = "shutdown"]
              /\ stopLog' = Append(stopLog, StopEvent(s, "shutdown"))
              /\ UNCHANGED << isInitialized, connOpen, initPc, diagnostics, serverProcess >>
         ELSE Teardown(s, FALSE)
    /\ UNCHANGED << outDir, sent, nPush, nWrite, hasSubDir, dirOk >>
    /\ UNCHANGED callVars
    /\ UNCHANGED httpVars

\* The process answers the shutdown request: the exit notification is sent.
ShutdownAnswered(s) ==
    /\ stopPc[s] = "shutdown"
    /\ connOpen
    /\ stopPc' = [stopPc EXCEPT ![s] = "exit"]
    /\ stopLog' = stopLog \o << StopEvent(s, "answered"), StopEvent(s, "exit") >>
    /\ UNCHANGED << isInitialized, connOpen, initPc, diagnostics, serverProcess >>
    /\ UNCHANGED << outDir, sent, nPush, nWrite, hasSubDir, dirOk >>
    /\ UNCHANGED callVars
    /\ UNCHANGED httpVars

\* The process answers the shutdown request with an error: the await throws,
\* the catch logs the error and stop() returns.
ShutdownRejected(s) ==
    /\ stopPc[s] = "shutdown"
    /\ connOpen
    /\ stopPc' = [stopPc EXCEPT ![s] = "returned"]
    /\ UNCHANGED << isInitialized, connOpen, initPc, diagnostics, serverProcess, stopLog >>
    /\ UNCHANGED << outDir, sent, nPush, nWrite, hasSubDir, dirOk >>
    /\ UNCHANGED callVars
    /\ UNCHANGED httpVars

\* The exit notification is written: stop() runs to its end.
ExitSent(s) ==
    /\ stopPc[s] = "exit"
    /\ Teardown(s, TRUE)
    /\ UNCHANGED << outDir, sent, nPush, nWrite, hasSubDir, dirOk >>
    /\ UNCHANGED callVars
    /\ UNCHANGED httpVars

StopStep ==
    \E s \in Stops :
       StopCall(s) \/ ShutdownAnswered(s) \/ ShutdownRejected(s) \/ ExitSent(s)

\* ------------------------------------------------- notifyDeletedFile
\* The Deleted notifications sent so far.
DeletedCount ==
    Cardinality({ n \in DOMAIN sent :
                    /\ sent[n].method = "workspace/didChangeWatchedFiles"
                    /\ \E k \in DOMAIN sent[n].changes : sent[n].changes[k].type = "Deleted" })

\* AlfaCompiler.notifyDeletedFile(s): didChangeWatchedFiles with type Deleted,
\* whatever the state of the client.
NotifyDeleted(paths) ==
    /\ connOpen
    /\ DeletedCount < MaxDeleted
    /\ sent' = sent \o ChangeNotifications(paths, "Deleted", 0)
    /\ UNCHANGED << isInitialized, connOpen, initPc, diagnostics, outDir, nPush, nWrite,
                    hasSubDir, dirOk >>
    /\ UNCHANGED callVars
    /\ UNCHANGED stopVars
    /\ UNCHANGED httpVars

\* ------------------------------------------------------ the HTTP layer
StatusNotFound == 404           \* `res.writeHead(404, ...)` in the router
StatusMethodNotAllowed == 405   \* `res.writeHead(405, ...)`
StatusServerError == 500        \* `res.writeHead(500, ...)` in handleError

\* What the client parts other than the compile calls and stop() hold.
clientVars == << isInitialized, connOpen, initPc, diagnostics, outDir, hasSubDir, dirOk,
                 sent, nPush, nWrite >>

\* The entries of a `files` array; a property that is missing reads as "".
EntryA == [fileName |-> "a.alfa", content |-> "policy a"]
EntryB == [fileName |-> "b.alfa", content |-> "policy b"]
EntryNoContent == [fileName |-> "c.alfa", content |-> ""]

\* JSON.parse(body): the value, or the SyntaxError it throws.
JsonParse(body) ==
    CASE body = "null" -> [ok |-> TRUE, value |-> [type |-> "null"]]
      [] body = "{}" ->
           [ok |-> TRUE, value |-> [type |-> "object", files |-> [type |-> "undefined"]]]
      [] body = "{files:'a.alfa'}" ->
           [ok |-> TRUE, value |-> [type |-> "object", files |-> [type |-> "string"]]]
      [] body = "{files:[]}" ->
           [ok |-> TRUE,
            value |-> [type |-> "object", files |-> [type |-> "array", items |-> <<>>]]]
      [] body = "{files:[c]}" ->
           [ok |-> TRUE,
            value |-> [type |-> "object",
                       files |-> [type |-> "array", items |-> << EntryNoContent >>]]]
      [] body = "{files:[a,c]}" ->
           [ok |-> TRUE,
            value |-> [type |-> "object",
                       files |-> [type |-> "array", items |-> << EntryA, EntryNoContent >>]]]
      [] body = "{files:[a]}" ->
           [ok |-> TRUE,
            value |-> [type |-> "object",
                       files |-> [type |-> "array", items |-> << EntryA >>]]]
      [] body = "{files:[a,b]}" ->
           [ok |-> TRUE,
            value |-> [type |-> "object",
                       files |-> [type |-> "array", items |-> << EntryA, EntryB >>]]]
      [] OTHER -> [ok |-> FALSE, error |-> "Unexpected end of JSON input"]

\* The bodies a client posts to /compile-multiple.
JsonBodies ==
    { "", "{", "null", "{}", "{files:'a.alfa'}", "{files:[]}", "{files:[c]}",
      "{files:[a,c]}", "{files:[a]}", "{files:[a,b]}" }

\* How a body is framed: the Content-Length header ("" when the body is sent
\* in chunks) and the body.
Framed(body) == { [length |-> "", body |-> body],
                  [length |-> IF body = "" THEN "0" ELSE "8", body |-> body] }

\* The requests the clients send.
HttpRequests ==
    { [url |-> "/compile", method |-> m, ctype |-> t, length |-> f.length, body |-> f.body] :
         m \in {"POST", "GET"},
         t \in {"text/plain; charset=utf-8", "application/json"},
         f \in Framed("") \cup Framed("policy a") }
    \cup
    { [url |-> u, method |-> m, ctype |-> "text/plain", length |-> "0", body |-> ""] :
         u \in {"/", "/compile/", "/compiles"}, m \in {"POST", "GET"} }
    \cup
    { [url |-> "/compile-multiple", method |-> "POST", ctype |-> "application/json",
       length |-> "", body |-> b] : b \in JsonBodies }
    \cup
    { [url |-> "/compile-multiple", method |-> "GET", ctype |-> "application/json",
       length |-> "", body |-> "{files:[a]}"],
      [url |-> "/compile-multiple", method |-> "POST", ctype |-> "text/plain",
       length |-> "", body |-> "{files:[a]}"] }

Json(status, body) == [status |-> status, type |-> "application/json", body |-> body]
Text(status, body) == [status |-> status, type |-> "text/plain", body |-> body]
NoResponse == [status |-> "none"]

\* `contentType.startsWith(prefix)`
StartsWith(s, prefix) == Len(s) >= Len(prefix) /\ SubSeq(s, 1, Len(prefix)) = prefix

\* parseInt(req.headers['content-length'] || '0', 10)
ContentLength(q) ==
    CASE q.length = "" -> 0
      [] q.length = "0" -> 0
      [] OTHER -> 8

\* A faulty switch, which matches the start of the pathname.
RouteByPrefix(q) ==
    CASE StartsWith(q.url, "/compile-multiple") -> "multiple"
      [] StartsWith(q.url, "/compile") -> "compile"
      [] OTHER -> "default"

\* The router's switch on the pathname.
Route(q) ==
    CASE q.url = "/compile" -> "compile"
      [] q.url = "/compile-multiple" -> "multiple"
      [] OTHER -> "default"

\* The router's default branch.
NotFound == Text(StatusNotFound, "Not found")

\* A faulty handleCompileRequest, which looks at the content type first.
CompileRejectionTypeFirst(q) ==
    IF ~StartsWith(q.ctype, "text/plain")
      THEN Json(StatusBadRequest, [error |-> "Content-Type must be text/plain"])
      ELSE IF q.method # "POST"
        THEN Json(StatusMethodNotAllowed, [error |-> "Method Not Allowed. Use POST."])
        ELSE IF ContentLength(q) = 0
          THEN Json(StatusBadRequest, [error |-> "Empty file content"])
          ELSE NoResponse

\* handleCompileRequest, up to its try: the response that turns the request
\* away, if any.
CompileRejection(q) ==
    IF q.method # "POST"
      THEN Json(StatusMethodNotAllowed, [error |-> "Method Not Allowed. Use POST."])
      ELSE IF ~StartsWith(q.ctype, "text/plain")
        THEN Json(StatusBadRequest, [error |-> "Content-Type must be text/plain"])
        ELSE IF ContentLength(q) = 0
          THEN Json(StatusBadRequest, [error |-> "Empty file content"])
          ELSE NoResponse

\* handleCompileMultipleRequest, up to the await of the body.
MultipleRejection(q) ==
    IF q.method # "POST"
      THEN Json(StatusMethodNotAllowed, [error |-> "Method Not Allowed. Use POST."])
      ELSE IF ~StartsWith(q.ctype, "application/json")
        THEN Json(StatusBadRequest, [error |-> "Content-Type must be application/json"])
        ELSE NoResponse

\* handleCompileMultipleRequest, from the end of the body to the write loop:
\* the response that turns the body away, if any.  Reading `files` of a body
\* that parses to null throws a TypeError outside every try: the handler
\* rejects and the router's handleError answers.
BodyRejection(body) ==
    IF body = ""
      THEN Json(StatusBadRequest, [error |-> "Empty content"])
      ELSE LET parsed == JsonParse(body) IN
        IF ~parsed.ok
          THEN Json(StatusBadRequest, [error |-> << "Invalid JSON body", parsed.error >>])
          ELSE IF parsed.value.type = "null"
            THEN Text(StatusServerError, << "Internal Server Error", "TypeError" >>)
            ELSE IF \/ parsed.value.files.type # "array"
                    \/ Len(parsed.value.files.items) = 0
              THEN Json(StatusBadRequest, [error |-> "No files provided"])
              ELSE NoResponse

\* `!file.fileName || !file.content` does not hold of the entry.
EntryValid(file) == file.fileName # "" /\ file.content # ""

\* handleCompileMultipleRequest, once compileFiles has returned or thrown.
MultipleResponse(res) ==
    IF res.kind = "Success"
      THEN Json(StatusOk, [success |-> TRUE, output |-> res.output])
      ELSE Json(StatusBadRequest, [error |-> res.error])

\* res.writeHead and res.end: once a response has been written, writeHead
\* throws ERR_HTTP_HEADERS_SENT and nothing more reaches the client.
WriteHead(rs, r) == IF rs = <<>> THEN << r >> ELSE rs

\* Date.now(): the clock where it stands, or a millisecond on.
Stamps == { t \in {now, now + 1} : t <= MaxClock }

\* join(policiesDir, `uploaded-policy-${Date.now()}.alfa`) with name "policy",
\* join(policiesDir, `uploaded-${Date.now()}-${file.fileName}`) otherwise.
TempPath(h, t, name) == [stamp |-> t, name |-> name]

\* The input the process finds at a temporary path: the upload stored there.
Stored(path) == IF path.name = "b.alfa" THEN FileB ELSE FileA

\* A faulty startup, which does not await initialize().
InitializeStarted(p) == \E i \in DOMAIN p : p[i] # "none"

\* `await compiler.initialize()` has returned.
InitializeAwaited(p) == \E i \in DOMAIN p : p[i] = "answered"

\* initialize() has returned: the import of the compiler module completes, the
\* server is created and listens.
ServiceListens ==
    /\ service = "starting"
    /\ InitializeAwaited(initPc)
    /\ service' = "listening"
    /\ UNCHANGED << now, policies, hpc, hreq, temps, htodo, responses >>
    /\ UNCHANGED clientVars
    /\ UNCHANGED callVars
    /\ UNCHANGED stopVars

\* initialize() has thrown: process.exit(1).
ServiceExits ==
    /\ service = "starting"
    /\ \E i \in Inits : initPc[i] = "failed"
    /\ service' = "exited"
    /\ UNCHANGED << now, policies, hpc, hreq, temps, htodo, responses >>
    /\ UNCHANGED clientVars
    /\ UNCHANGED callVars
    /\ UNCHANGED stopVars

\* The handler has written its response and returns.
HttpFinish(h, r) ==
    /\ hpc' = [hpc EXCEPT ![h] = "finished"]
    /\ responses' = [responses EXCEPT ![h] = WriteHead(@, r)]

\* compileFile(filePath) / compileFiles(tempFilePaths): one path goes to
\* AlfaCompiler.compile, more go to AlfaCompiler.compileFiles, which runs to
\* its first fs.stat.
StartCompile(h, paths) ==
    LET inputs == [i \in DOMAIN paths |-> Stored(paths[i])] IN
    /\ hpc' = [hpc EXCEPT ![h] = "compiling"]
    /\ req' = [req EXCEPT ![h] = [entry |-> IF Len(paths) = 1 THEN "compile"
                                                               ELSE "compileFiles",
                                  paths |-> inputs]]
    /\ Goto(h, "validate", inputs)

\* A request arrives at the listening server.  The router and the handler run
\* to the handler's first await: the request is turned away, or the upload to
\* a temporary file starts (/compile), or the body is awaited
\* (/compile-multiple).  `others` is the number of other requests the clients
\* let be in flight at that moment.
HttpArrive(h, q, others) ==
    /\ service = "listening"
    /\ hpc[h] = "none"
    /\ \A d \in Calls : d < h => hpc[d] # "none"
    /\ Cardinality({d \in Calls : hpc[d] \notin {"none", "closed"}}) <= others
    /\ hreq' = [hreq EXCEPT ![h] = q]
    /\ LET early == CASE Route(q) = "compile" -> CompileRejection(q)
                      [] Route(q) = "multiple" -> MultipleRejection(q)
                      [] OTHER -> NotFound
       IN  IF early # NoResponse
             THEN /\ HttpFinish(h, early)
                  /\ UNCHANGED << now, temps >>
             ELSE IF Route(q) = "compile"
               THEN /\ \E t \in Stamps :
                         /\ now' = t
                         /\ temps' = [temps EXCEPT ![h] = << TempPath(h, t, "policy") >>]
                    /\ hpc' = [hpc EXCEPT ![h] = "upload"]
                    /\ UNCHANGED responses
               ELSE /\ hpc' = [hpc EXCEPT ![h] = "body"]
                    /\ UNCHANGED << now, temps, responses >>
    /\ UNCHANGED << service, policies, htodo >>
    /\ UNCHANGED clientVars
    /\ UNCHANGED callVars
    /\ UNCHANGED stopVars

\* pipeline(req, writeStream) has stored the body in the temporary file.
UploadDone(h) ==
    /\ service = "listening"
    /\ hpc[h] = "upload"
    /\ hpc' = [hpc EXCEPT ![h] = "stat"]
    /\ policies' = policies \cup { temps[h][1] }
    /\ UNCHANGED << service, now, hreq, temps, htodo, responses >>
    /\ UNCHANGED clientVars
    /\ UNCHANGED callVars
    /\ UNCHANGED stopVars

\* stat(filePath) completes: an empty file is answered 400 and the finally
\* block starts to remove it; otherwise compileFile is called.
StatSizeDone(h) ==
    /\ service = "listening"
    /\ hpc[h] = "stat"
    /\ IF Len(hreq[h].body) = 0
         THEN /\ hpc' = [hpc EXCEPT ![h] = "rm"]
              /\ responses' = [responses EXCEPT ![h] =
                     WriteHead(@, Json(StatusBadRequest, [error |-> "Empty file content"]))]
              /\ htodo' = [htodo EXCEPT ![h] = temps[h]]
              /\ UNCHANGED callVars
         ELSE /\ StartCompile(h, temps[h])
              /\ UNCHANGED << htodo, responses >>
    /\ UNCHANGED << service, now, policies, hreq, temps >>
    /\ UNCHANGED clientVars
    /\ UNCHANGED stopVars

\* The for-of loop over parsed.files at its head, `entries` being left and
\* `written` being tempFilePaths: the next entry is checked and its write
\* starts; an entry that lacks a property makes the loop throw, the catch
\* answers 400 and the finally block starts; after the last entry compileFiles
\* is called.  While a write is under way temps holds its path as well.
WriteLoop(h, entries, written) ==
    IF entries = <<>>
      THEN /\ StartCompile(h, written)
           /\ temps' = [temps EXCEPT ![h] = written]
           /\ htodo' = [htodo EXCEPT ![h] = <<>>]
           /\ UNCHANGED << now, responses >>
      ELSE IF ~EntryValid(Head(entries))
        THEN /\ responses' = [responses EXCEPT ![h] =
                    WriteHead(@, Json(StatusBadRequest,
                          [error |-> "Each file must have a filename and content"]))]
             /\ hpc' = [hpc EXCEPT ![h] = IF written = <<>> THEN "finished" ELSE "rm"]
             /\ temps' = [temps EXCEPT ![h] = written]
             /\ htodo' = [htodo EXCEPT ![h] = written]
             /\ UNCHANGED now
             /\ UNCHANGED callVars
        ELSE /\ \E t \in Stamps :
                  /\ now' = t
                  /\ temps' = [temps EXCEPT ![h] =
                         Append(written, TempPath(h, t, Head(entries).fileName))]
             /\ hpc' = [hpc EXCEPT ![h] = "write"]
             /\ htodo' = [htodo EXCEPT ![h] = entries]
             /\ UNCHANGED responses
             /\ UNCHANGED callVars

\* The body of a /compile-multiple request has ended: it is turned away, or
\* the write loop starts.
BodyEnd(h) ==
    /\ service = "listening"
    /\ hpc[h] = "body"
    /\ LET early == BodyRejection(hreq[h].body) IN
       IF early # NoResponse
         THEN /\ HttpFinish(h, early)
              /\ UNCHANGED << now, temps, htodo >>
              /\ UNCHANGED callVars
         ELSE WriteLoop(h, JsonParse(hreq[h].body).value.files.items, <<>>)
    /\ UNCHANGED << service, policies, hreq >>
    /\ UNCHANGED clientVars
    /\ UNCHANGED stopVars

\* writeFile(tempFilePath, ...) completes: the path is pushed and the loop
\* goes on.
WriteDone(h) ==
    /\ service = "listening"
    /\ hpc[h] = "write"
    /\ policies' = policies \cup { temps[h][Len(temps[h])] }
    /\ WriteLoop(h, Tail(htodo[h]), temps[h])
    /\ UNCHANGED << service, hreq >>
    /\ UNCHANGED clientVars
    /\ UNCHANGED stopVars

\* compileFile / compileFiles has returned or thrown: the handler answers and
\* its finally block starts to remove the temporary files.
HandlerResumes(h) ==
    /\ service = "listening"
    /\ hpc[h] = "compiling"
    /\ pc[h] = "done"
    /\ pc' = [pc EXCEPT ![h] = "returned"]
    /\ req' = [req EXCEPT ![h] = NoRequest]
    /\ result' = [result EXCEPT ![h] = NoResult]
    /\ responses' = [responses EXCEPT ![h] =
           WriteHead(@, IF Route(hreq[h]) = "compile"
                          THEN LET r == CompileResponse(result[h])
                               IN  Json(r.status, r.body)
                          ELSE MultipleResponse(result[h]))]
    /\ hpc' = [hpc EXCEPT ![h] = "rm"]
    /\ htodo' = [htodo EXCEPT ![h] = temps[h]]
    /\ UNCHANGED << service, now, policies, hreq, temps >>
    /\ UNCHANGED << todo, outputs >>
    /\ UNCHANGED clientVars
    /\ UNCHANGED stopVars

\* rm(path, {force: true}) completes.  /compile then calls notifyDeletedFile,
\* whose failure on a closed connection its catch swallows, and the handler
\* returns; /compile-multiple removes its next file or awaits delay(500).
RmDone(h) ==
    /\ service = "listening"
    /\ hpc[h] = "rm"
    /\ policies' = policies \ { Head(htodo[h]) }
    /\ IF Len(htodo[h]) > 1
         THEN /\ htodo' = [htodo EXCEPT ![h] = Tail(@)]
              /\ UNCHANGED << hpc, sent >>
         ELSE /\ htodo' = [htodo EXCEPT ![h] = <<>>]
              /\ IF Route(hreq[h]) = "compile"
                   THEN /\ hpc' = [hpc EXCEPT ![h] = "finished"]
                        /\ sent' = IF connOpen
                             THEN sent \o ChangeNotification(Stored(temps[h][1]), "Deleted", 0)
                             ELSE sent
                   ELSE /\ hpc' = [hpc EXCEPT ![h] = "delay"]
                        /\ UNCHANGED sent
    /\ UNCHANGED << service, now, hreq, temps, responses >>
    /\ UNCHANGED << isInitialized, connOpen, initPc, diagnostics, outDir, hasSubDir, dirOk,
                    nPush, nWrite >>
    /\ UNCHANGED callVars
    /\ UNCHANGED stopVars

\* delay(500) has elapsed: notifyDeletedFiles(tempFilePaths).  On a closed
\* connection the send throws outside every try: the handler rejects and the
\* router's handleError writes its response.  The request is answered by
\* then, so that writeHead throws in the callback of .catch: the rejection is
\* handled nowhere, which ends the service or not, as the runtime is set.
DelayDone(h) ==
    /\ service = "listening"
    /\ hpc[h] = "delay"
    /\ hpc' = [hpc EXCEPT ![h] = "finished"]
    /\ IF connOpen
         THEN /\ sent' = sent \o ChangeNotifications(
                     [i \in DOMAIN temps[h] |-> Stored(temps[h][i])], "Deleted", 0)
              /\ UNCHANGED responses
              /\ UNCHANGED service
         ELSE /\ responses' = [responses EXCEPT ![h] =
                     WriteHead(@, Text(StatusServerError,
                                       << "Internal Server Error", "ConnectionError" >>))]
              /\ service' \in {"listening", "crashed"}
              /\ UNCHANGED sent
    /\ UNCHANGED << now, policies, hreq, temps, htodo >>
    /\ UNCHANGED << isInitialized, connOpen, initPc, diagnostics, outDir, hasSubDir, dirOk,
                    nPush, nWrite >>
    /\ UNCHANGED callVars
    /\ UNCHANGED stopVars

\* The connection of an answered request is released.
HttpClose(h) ==
    /\ service = "listening"
    /\ hpc[h] = "finished"
    /\ hpc' = [hpc EXCEPT ![h] = "closed"]
    /\ hreq' = [hreq EXCEPT ![h] = NoHttp]
    /\ temps' = [temps EXCEPT ![h] = <<>>]
    /\ responses' = [responses EXCEPT ![h] = <<>>]
    /\ UNCHANGED << service, now, policies, htodo >>
    /\ UNCHANGED clientVars
    /\ UNCHANGED callVars
    /\ UNCHANGED stopVars

\* ---------------------------------------------------- specifications
\* The awaits of a call, up to its return or throw.
CycleStep(c) ==
    \/ StatDone(c)
    \/ PreReaddirDone(c)
    \/ PreUnlinkDone(c)
    \/ SettleElapsed(c)
    \/ ReadReaddirDone(c)
    \/ ReadFileDone(c)
    \/ PostReaddirDone(c)
    \/ PostUnlinkDone(c)

CallStep(c) == CycleStep(c) \/ Return(c)

\* What the process does about the change notifications it was sent.
ProcessEvent ==
    \E n \in ChangeBatches : \E k \in DOMAIN sent[n].changes :
          \/ \E ds \in DiagLists(sent[n].changes[k].uri) : PublishDiagnostics(n, k, ds)
          \/ WriteOutput(n, k)

\* The service initializes its client once, when it starts.
Environment ==
    \/ (\A j \in Inits : initPc[j] = "none") /\ \E i \in Inits : InitializeCall(i)
    \/ \E i \in Inits : InitializeResponse(i)
    \/ \E i \in Inits : InitializeRejected(i)
    \/ \E i \in Inits : InitializedSendFailed(i)
    \/ \E i \in Inits : InitializeReturn(i)
    \/ ConnectionClosed
    \/ DirectoryLost
    \/ ProcessEvent

\* Any number of calls in flight: what the HTTP handlers can do.
Next ==
    \/ \E c \in Calls : \E r \in Requests : Invoke(c, r, MaxCalls)
    \/ \E c \in Calls : CallStep(c)
    \/ Environment

Spec == Init /\ [][Next]_vars

\* A caller that awaits each call before it issues the next.
NextSeq ==
    \/ \E c \in Calls : \E r \in Requests : Invoke(c, r, 0)
    \/ \E c \in Calls : CallStep(c)
    \/ Environment

SpecSeq == Init /\ [][NextSeq]_vars

\* The file system operations and the timers a call awaits complete, and the
\* caller takes the result: a call that can step does step.
Fairness == \A c \in Calls : WF_vars(CallStep(c))

SpecFair == SpecSeq /\ Fairness

\* One call, made at any moment of the client's life.
NextOne ==
    \/ \E c \in Calls : \E r \in Requests : (\A d \in Calls : c <= d) /\ Invoke(c, r, 0)
    \/ \E c \in Calls : CallStep(c)
    \/ Environment

SpecOne == Init /\ [][NextOne]_vars /\ Fairness

\* The life of the client: initialize() and stop() called at any time, any
\* number of times, and the deletion notifications.
NextLife ==
    \/ \E i \in Inits : InitializeCall(i)
    \/ \E i \in Inits : InitializeResponse(i)
    \/ \E i \in Inits : InitializeRejected(i)
    \/ \E i \in Inits : InitializedSendFailed(i)
    \/ \E i \in Inits : InitializeReturn(i)
    \/ ConnectionClosed
    \/ StopStep
    \/ NotifyDeleted(<<FileA>>)

SpecLife == Init /\ [][NextLife]_vars

\* The two entry points called with the same single path.
PairRequests ==
    { [entry |-> e, paths |-> <<p>>] : e \in {"compile", "compileFiles"},
                                      p \in {FileA, Missing} }

NextPair ==
    \/ \E c \in Calls : \E r \in PairRequests : Invoke(c, r, 0)
    \/ \E c \in Calls : CallStep(c)
    \/ Environment

SpecPair == Init /\ [][NextPair]_vars

\* The client with no compile traffic: it is initialized once and stopped.
NextStop ==
    \/ (\A j \in Inits : initPc[j] = "none") /\ \E i \in Inits : InitializeCall(i)
    \/ \E i \in Inits : InitializeResponse(i)
    \/ \E i \in Inits : InitializeRejected(i)
    \/ \E i \in Inits : InitializedSendFailed(i)
    \/ \E i \in Inits : InitializeReturn(i)
    \/ ConnectionClosed
    \/ StopStep

SpecStop == Init /\ [][NextStop]_vars

\* The awaits of the compile call of a handler, while the service runs.
HttpCycleStep(c) == service = "listening" /\ CycleStep(c)

\* The awaits of an HTTP handler.
HttpStep(h) ==
    \/ UploadDone(h)
    \/ StatSizeDone(h)
    \/ BodyEnd(h)
    \/ WriteDone(h)
    \/ HandlerResumes(h)
    \/ RmDone(h)
    \/ DelayDone(h)
    \/ HttpClose(h)

\* The service starts: the compiler module initializes its client once, then
\* the server listens or the service exits.
Startup ==
    \/ (\A j \in Inits : initPc[j] = "none") /\ \E i \in Inits : InitializeCall(i)
    \/ \E i \in Inits : InitializeResponse(i)
    \/ \E i \in Inits : InitializeRejected(i)
    \/ \E i \in Inits : InitializedSendFailed(i)
    \/ \E i \in Inits : InitializeReturn(i)
    \/ ServiceListens
    \/ ServiceExits

\* The service with clients that await each response before the next request.
NextHttp ==
    \/ \E h \in Calls : \E q \in HttpRequests : HttpArrive(h, q, 0)
    \/ \E h \in Calls : HttpStep(h)
    \/ \E c \in Calls : HttpCycleStep(c)
    \/ Startup
    \/ ConnectionClosed
    \/ ProcessEvent

SpecHttp == Init /\ [][NextHttp]_vars

\* The service with one request, sent at any moment after the start.
NextHttpOne ==
    \/ \E h \in Calls : \E q \in HttpRequests :
           (\A d \in Calls : h <= d) /\ HttpArrive(h, q, 0)
    \/ \E h \in Calls : HttpStep(h)
    \/ \E c \in Calls : HttpCycleStep(c)
    \/ Startup
    \/ ConnectionClosed
    \/ ProcessEvent

SpecHttpOne == Init /\ [][NextHttpOne]_vars

\* The uploads of one policy, as text and as the one entry of a files array.
Uploads ==
    { q \in HttpRequests :
        /\ q.method = "POST"
        /\ \/ Route(q) = "compile" /\ CompileRejection(q) = NoResponse
                                    /\ q.ctype = "text/plain; charset=utf-8"
           \/ Route(q) = "multiple" /\ q.body = "{files:[a]}" }

\* The process writes the artifacts and finds no fault with the inputs.
ProcessWrites ==
    \E n \in ChangeBatches : \E k \in DOMAIN sent[n].changes : WriteOutput(n, k)

\* The service with uploads that overlap.
NextHttpAll ==
    \/ \E h \in Calls : \E q \in Uploads : HttpArrive(h, q, MaxCalls)
    \/ \E h \in Calls : HttpStep(h)
    \/ \E c \in Calls : HttpCycleStep(c)
    \/ Startup
    \/ ConnectionClosed
    \/ ProcessWrites

SpecHttpAll == Init /\ [][NextHttpAll]_vars

\* ======================================================== properties
\* The awaits of a compile cycle: from the diagnostics clear to the return or
\* throw of the client's compile/compileFiles.
CycleStates ==
    { "pre_readdir", "pre_unlink", "settle", "read_readdir", "read_file",
      "post_readdir", "post_unlink" }

InCycle(c) == pc[c] \in CycleStates

\* The step is a continuation of call c.
Steps(c) == pc'[c] # pc[c] \/ todo'[c] # todo[c]

\* Call c runs its error check in this step.
Checks(c) == pc[c] = "settle" /\ pc'[c] # "settle"

\* Call c sends its change notification in this step.
Notifies(c) == pc[c] \in {"pre_readdir", "pre_unlink"} /\ pc'[c] = "settle"

\* ---------------------------------------------------------------- C1
\* C1: at most one compile cycle is in flight per client: no call is inside
\* its cycle (clear, notify, settle, check, read, post-clear) while another
\* call's cycle has started and has not yet returned or thrown.
C1_OneCycleInFlight ==
    \A c, d \in Calls : InCycle(c) /\ InCycle(d) => c = d

\* ---------------------------------------------------------------- C2
\* Call d has read file f, or has finished reading the output directory.
HasRead(d, f) ==
    \/ pc[d] \in {"post_readdir", "post_unlink", "done", "returned"}
    \/ \E i \in DOMAIN outputs[d] :
          outputs[d][i].fileName = f /\ outputs[d][i].cause = d

\* C2: for any two calls, an output-directory clear of one call (before its
\* cycle or after its read) never deletes a file written for the other call
\* before that other call has read it.
C2_ClearSparesUnreadOutput ==
    [][\A c \in Calls : \A f \in OutFiles :
          (Steps(c) /\ outDir[f] # NoFile /\ outDir'[f] = NoFile)
             => \A d \in Calls \ {c} : outDir[f] = <<d>> => HasRead(d, f)]_vars

\* ---------------------------------------------------------------- C3
\* C3: for two overlapping calls a and b, the diagnostics a inspects at its
\* check hold nothing the process pushed for b's notification, and b's
\* diagnostics clear erases nothing pushed for a that a has yet to inspect.
C3_NoCrossTalk ==
    [][\A a, b \in Calls : a # b =>
          /\ (Checks(a) /\ InCycle(b))
                => \A i \in DOMAIN diagnostics : diagnostics[i].cause # b
          /\ (pc[a] = "settle" /\ pc[b] = "validate" /\ pc'[b] = "pre_readdir")
                => \A i \in DOMAIN diagnostics :
                      diagnostics[i].cause = a
                         => \E j \in DOMAIN diagnostics' :
                               diagnostics'[j] = diagnostics[i]]_vars

\* ---------------------------------------------------------------- C4
\* C4: with each call awaited before the next is issued, the diagnostics a
\* cycle inspects at its check hold nothing the process pushed for an earlier
\* cycle's notification, a push delivered late included.
C4_NoLeakFromEarlierCycle ==
    [][\A c \in Calls :
          Checks(c) => \A i \in DOMAIN diagnostics : diagnostics[i].cause = c]_vars

\* ---------------------------------------------------------------- C5
\* C5: every cycle begins by emptying the diagnostics map, whatever came
\* before: the map is empty right after the step that enters the cycle; and
\* from then on an entry of the map is one that was there a step ago or one
\* the step's push recorded, so that what the cycle finds in the map when it
\* notifies or checks was recorded after its clear.
C5_ClearAtCycleStart ==
    [][/\ \A c \in Calls :
             (pc[c] \notin CycleStates /\ pc'[c] \in CycleStates)
                => diagnostics' = <<>>
       /\ \A i \in DOMAIN diagnostics' :
             \/ i \in DOMAIN diagnostics /\ diagnostics'[i] = diagnostics[i]
             \/ nPush' = nPush + 1]_vars

\* A cycle has just cleared a map that pushes had filled.
C5_Witness ==
    \E c \in Calls : pc[c] = "pre_readdir" /\ nPush > 0 /\ diagnostics = <<>>

\* ---------------------------------------------------------------- C6
\* The positions of a request's paths that are no regular file.
BadPaths(r) == { i \in DOMAIN r.paths : InputKind(r.paths[i]) # "file" }

\* C6: a call with an input path that does not exist or is no regular file
\* sends no workspace/didChangeWatchedFiles notification, and fails with an
\* error that names the first such path, for a nonexistent path with the text
\* "no such file or directory"; valid paths earlier in the list change nothing.
C6_BadInputRejected ==
    \A c \in Calls : BadPaths(req[c]) # {} =>
       /\ \A n \in DOMAIN sent : sent[n].call # c
       /\ ~InCycle(c)
       /\ pc[c] = "done" =>
             LET i == CHOOSE k \in BadPaths(req[c]) :
                         \A l \in BadPaths(req[c]) : k <= l
                 p == req[c].paths[i]
             IN  /\ result[c].kind \in {"ENOENT", "NotAFile"}
                 /\ result[c].at = "validate"
                 /\ result[c].error.path = p
                 /\ InputKind(p) = "missing"
                       => result[c].error.text = "no such file or directory"

\* An initialized client has rejected a list whose first path is valid.
C6_Witness ==
    \E c \in Calls :
       /\ pc[c] = "done" /\ isInitialized
       /\ req[c].paths = <<FileA, DirD>>
       /\ result[c].kind = "NotAFile" /\ result[c].error.path = DirD

\* ---------------------------------------------------------------- C7
\* C7: the steps of a call up to and including a failed input validation
\* leave the diagnostics map, the output directory and the initialized flag
\* as they were.
C7_FailedValidationTouchesNothing ==
    [][\A c \in Calls :
          (Steps(c) /\ pc[c] \in {"idle", "validate"} /\ pc'[c] \in {"validate", "done"})
             => UNCHANGED << diagnostics, outDir, hasSubDir, isInitialized >>]_vars

\* A validation has failed on a client with diagnostics and output in place.
C7_Witness ==
    \E c \in Calls :
       /\ pc[c] = "done" /\ result[c].kind = "ENOENT"
       /\ diagnostics # <<>> /\ isInitialized
       /\ \E f \in OutFiles : outDir[f] # NoFile

\* ---------------------------------------------------------------- C8
\* The change notifications sent for call c.
ChangeCount(s, c) ==
    Cardinality({ n \in DOMAIN s : s[n].method = "workspace/didChangeWatchedFiles"
                                   /\ s[n].call = c })

\* C8: a cycle that passes the ready check sends exactly one
\* workspace/didChangeWatchedFiles notification, whose changes are the file
\* URIs of the request's paths, in the request's order, each of type Changed;
\* no other step sends a change notification for the call.
C8_OneBatchPerCycle ==
    [][\A c \in Calls :
          IF Notifies(c)
            THEN /\ ChangeCount(sent, c) = 0
                 /\ Len(sent') = Len(sent) + 1
                 /\ SubSeq(sent', 1, Len(sent)) = sent
                 /\ LET m == sent'[Len(sent')] IN
                      /\ m.method = "workspace/didChangeWatchedFiles"
                      /\ m.call = c
                      /\ Len(m.changes) = Len(req[c].paths)
                      /\ \A i \in DOMAIN req[c].paths :
                            m.changes[i] = [uri |-> "file://" \o req[c].paths[i],
                                            type |-> "Changed"]
            ELSE ChangeCount(sent', c) = ChangeCount(sent, c)]_vars

\* A cycle over two paths has sent its one notification.
C8_Witness ==
    \E c \in Calls :
       /\ pc[c] = "settle" /\ req[c].paths = <<FileA, FileB>>
       /\ ChangeCount(sent, c) = 1

\* ---------------------------------------------------------------- C9
\* Some stored diagnostic of some document has error severity.
HasErrorSeverity ==
    \E i \in DOMAIN diagnostics : \E j \in DOMAIN diagnostics[i].diags :
       diagnostics[i].diags[j].severity = ErrorSeverity

\* C9: at its check a cycle fails with a compilation error if and only if some
\* stored diagnostic has error severity; with none, an empty map included, it
\* goes on to read the output.
C9_FailsIffErrorSeverity ==
    [][\A c \in Calls : Checks(c) =>
          IF HasErrorSeverity
            THEN pc'[c] = "done" /\ result'[c].kind = "CompilationError"
            ELSE pc'[c] = "read_readdir" /\ result'[c] = result[c]]_vars

\* A cycle has gone on to read the output with only a warning stored.
C9_Witness ==
    \E c \in Calls :
       /\ pc[c] = "read_readdir" /\ ~HasErrorSeverity
       /\ \E i \in DOMAIN diagnostics : diagnostics[i].diags = <<DiagWarn>>

\* --------------------------------------------------------------- C10
\* Where the stored diagnostics of error severity are: <<document, index>>.
ErrorPositions ==
    UNION { { <<i, j>> : j \in { k \in DOMAIN diagnostics[i].diags :
                                   diagnostics[i].diags[k].severity = ErrorSeverity } } :
            i \in DOMAIN diagnostics }

\* C10: the message of a cycle that fails at its check starts with
\* "Compilation failed with errors:" and has exactly one line for each stored
\* diagnostic of error severity over all documents, none for any other
\* diagnostic; a line gives the start line + 1, the start character + 1 and
\* the diagnostic's message.
C10_OneLinePerError ==
    [][\A c \in Calls :
          (Checks(c) /\ result'[c].kind = "CompilationError") =>
             LET out == result'[c].error
                 lineOf(p) ==
                    LET d == diagnostics[p[1]].diags[p[2]]
                    IN  [line |-> d.line + 1, col |-> d.character + 1,
                         message |-> d.message]
             IN  /\ out.header = "Compilation failed with errors:"
                 /\ Len(out.lines) = Cardinality(ErrorPositions)
                 /\ \A p \in ErrorPositions :
                       \E k \in DOMAIN out.lines : out.lines[k] = lineOf(p)
                 /\ \A k \in DOMAIN out.lines :
                       \E p \in ErrorPositions : out.lines[k] = lineOf(p)]_vars

\* A cycle has failed on the errors of two documents, a warning stored too.
C10_Witness ==
    \E c \in Calls :
       /\ pc[c] = "done" /\ result[c].kind = "CompilationError"
       /\ result[c].error.lines =
             << [line |-> 1, col |-> 5, message |-> "m1"],
                [line |-> 8, col |-> 3, message |-> "m3"] >>

\* --------------------------------------------------------------- C11
\* The documents the process can publish diagnostics for.
Documents == { "file://" \o FileA, "file://" \o FileB }

\* C11: a push for a document replaces the list stored for it, never appends
\* to or merges with it, and leaves the other documents' entries as they
\* were: after the step that handles a push the map has one entry per
\* document, the pushed document's entry holds a list as the process pushed
\* it, and every other entry is where and what it was.  The check reads the
\* map as the last push left it.
C11_PushReplaces ==
    [][nPush' = nPush + 1 =>
          \E u \in Documents : \E ds \in DiagLists(u) :
             /\ \E j \in DOMAIN diagnostics' :
                   diagnostics'[j].uri = u /\ diagnostics'[j].diags = ds
             /\ \A j, k \in DOMAIN diagnostics' :
                   diagnostics'[j].uri = diagnostics'[k].uri => j = k
             /\ \A i \in DOMAIN diagnostics :
                   /\ i \in DOMAIN diagnostics'
                   /\ diagnostics[i].uri # u => diagnostics'[i] = diagnostics[i]
                   /\ diagnostics[i].uri = u => diagnostics'[i].uri = u
             /\ Len(diagnostics') =
                   Len(diagnostics)
                     + (IF \E i \in DOMAIN diagnostics : diagnostics[i].uri = u
                          THEN 0 ELSE 1)]_vars

\* The first call has passed its check after two pushes for its one document,
\* the second of them empty.
C11_Witness ==
    /\ pc[1] = "read_readdir" /\ nPush = 2
    /\ diagnostics = << [uri |-> "file://" \o FileA, diags |-> <<>>, cause |-> 1] >>

\* --------------------------------------------------------------- C12
\* C12: every file a cycle returns was written by the process for that
\* cycle's own change notification, never for an earlier cycle's.
C12_OutputIsOwn ==
    \A c \in Calls :
       (pc[c] = "done" /\ result[c].kind = "Success")
          => \A i \in DOMAIN result[c].output : result[c].output[i].cause = c

\* --------------------------------------------------------------- C13
\* C13: no artifact survives a cycle: when a cycle ends in success or in a
\* compilation error the output directory holds no file.
C13_NothingSurvives ==
    [][\A c \in Calls :
          (pc[c] # "done" /\ pc'[c] = "done"
             /\ result'[c].kind \in {"Success", "CompilationError"})
             => \A f \in OutFiles : outDir'[f] = NoFile]_vars

\* --------------------------------------------------------------- C14
\* The pre-cycle clear of call c fails in this step: its fs.readdir cannot
\* list the directory, or its fs.unlink meets an entry it cannot delete.
PreClearFails(c) ==
    /\ Steps(c)
    /\ \/ pc[c] = "pre_readdir" /\ ~dirOk
       \/ /\ pc[c] = "pre_unlink"
          /\ LET f == Head(todo[c])
             IN  ~dirOk \/ f = SubDir \/ outDir[f] = NoFile

\* C14: a failure to list the output directory or to delete one of its
\* entries during the pre-cycle clear ends the call with a "Failed to clean
\* old output files" error; the call has sent no change notification and
\* sends none, and it reads and returns no output.
C14_PreClearFailureAborts ==
    [][\A c \in Calls : PreClearFails(c) =>
          /\ pc'[c] = "done"
          /\ result'[c].kind = "CleanupError"
          /\ result'[c].error.text = "Failed to clean old output files"
          /\ sent' = sent
          /\ ChangeCount(sent, c) = 0
          /\ outputs'[c] = <<>> /\ outputs[c] = <<>>]_vars

\* An initialized client has aborted a cycle whose pre-cycle clear met the
\* subdirectory, the files deleted before it gone.
C14_Witness ==
    \E c \in Calls :
       /\ pc[c] = "done" /\ isInitialized /\ hasSubDir
       /\ result[c].kind = "CleanupError" /\ result[c].at = "pre_unlink"
       /\ \A f \in OutFiles : outDir[f] = NoFile

\* --------------------------------------------------------------- C15
\* The entries of the output directory, as fs.readdir lists them.
Entries ==
    SelectSeq(DirOrder, LAMBDA f : IF f = SubDir THEN hasSubDir ELSE outDir[f] # NoFile)

\* C15: getCompilationOutput takes the entries in the order the listing gave
\* them; an entry whose content can be read adds one record, with the
\* entry's name as fileName, after the records of the entries before it; an
\* entry whose read fails adds nothing and does not fail the read; a
\* directory that cannot be listed fails the whole read.
C15_OneRecordPerReadableEntry ==
    [][\A c \in Calls : Steps(c) =>
          /\ pc[c] = "read_readdir" =>
                IF dirOk
                  THEN /\ todo'[c] = Entries
                       /\ outputs'[c] = <<>>
                       /\ pc'[c] = IF Entries = <<>> THEN "post_readdir" ELSE "read_file"
                  ELSE /\ pc'[c] = "done"
                       /\ result'[c].kind = "ReadDirError"
                       /\ result'[c].error.text = "Failed to read output directory"
          /\ pc[c] = "read_file" =>
                LET f == Head(todo[c]) IN
                /\ todo'[c] = Tail(todo[c])
                /\ pc'[c] \in {"read_file", "post_readdir"}
                /\ result'[c] = result[c]
                /\ IF dirOk /\ f # SubDir /\ outDir[f] # NoFile
                     THEN /\ Len(outputs'[c]) = Len(outputs[c]) + 1
                          /\ SubSeq(outputs'[c], 1, Len(outputs[c])) = outputs[c]
                          /\ outputs'[c][Len(outputs'[c])].fileName = f
                     ELSE outputs'[c] = outputs[c]]_vars

\* A read has taken the first of two entries and will find the second gone.
C15_Witness ==
    \E c \in Calls :
       /\ pc[c] = "read_file" /\ ~dirOk
       /\ todo[c] = <<OutB>>
       /\ Len(outputs[c]) = 1 /\ outputs[c][1].fileName = OutA

\* --------------------------------------------------------------- C16
\* C16: stop() never throws, and once a stop() call has returned isReady()
\* reports false.
C16_StoppedIsNotReady ==
    \A s \in Stops : stopPc[s] = "returned" => ~IsReady

\* --------------------------------------------------------------- C17
\* C17: a stop() call ends the process: once the call has returned the
\* process is no longer alive.
C17_StopEndsProcess ==
    \A s \in Stops : stopPc[s] = "returned" => ~connOpen

\* --------------------------------------------------------------- C18
\* What one stop() call has done, in order.
EventsOf(s) ==
    LET mine == SelectSeq(stopLog, LAMBDA e : e.stop = s)
    IN  [k \in DOMAIN mine |-> mine[k].ev]

\* The order of a graceful stop.
GracefulOrder == << "shutdown", "answered", "exit", "dispose", "kill" >>

\* C18: a stop() call on an initialized client sends the shutdown request
\* first and kills nothing in that step; what a stop() call does is always a
\* beginning of: shutdown request sent, answered, exit notification sent,
\* connection disposed of, process killed.  Only a call that found the client
\* not initialized kills without any of the steps before.
C18_GracefulOrder ==
    [][\A s \in Stops :
          /\ (stopPc[s] = "idle" /\ stopPc'[s] # "idle" /\ isInitialized)
                => /\ stopLog' = Append(stopLog, [stop |-> s, ev |-> "shutdown"])
                   /\ UNCHANGED << serverProcess, connOpen >>
          /\ (stopPc[s] = "idle" /\ stopPc'[s] # "idle" /\ ~isInitialized)
                => EventsOf(s)' \in { <<>>, << "kill" >> }
          /\ (stopPc[s] # "idle" /\ EventsOf(s) # << "kill" >>)
                => \E n \in 0..Len(GracefulOrder) :
                      EventsOf(s)' = SubSeq(GracefulOrder, 1, n)]_vars

\* A stop() call has gone through the whole graceful order.
C18_Witness ==
    \E s \in Stops : EventsOf(s) = GracefulOrder /\ stopPc[s] = "returned"

\* --------------------------------------------------------------- C19
\* C19: over any sequence of initialize() calls at most one "initialize"
\* request is sent, and no call after the first completes a handshake (it
\* fails instead).
C19_OneHandshake ==
    /\ Cardinality({ n \in DOMAIN sent : sent[n].method = "initialize" }) <= 1
    /\ \A i, j \in Inits : j < i => initPc[i] # "answered"

\* --------------------------------------------------------------- C20
\* C20: no workspace/didChangeWatchedFiles notification is sent before the
\* "initialized" notification.
C20_NoChangeBeforeInitialized ==
    \A n \in DOMAIN sent :
       sent[n].method = "workspace/didChangeWatchedFiles"
          => \E m \in 1..(n - 1) : sent[m].method = "initialized"

\* --------------------------------------------------------------- C21
\* C21: from the moment initialize() is called until the moment it returns,
\* the post-handshake delay included, isReady() is false, so that a compile
\* call made in between is rejected as not initialized.
C21_NotReadyUntilReturn ==
    \A i \in Inits : initPc[i] \in {"requested", "settling"} => ~IsReady

\* --------------------------------------------------------------- C22
\* C22: once initialize() has failed with "Failed to initialize language
\* server", isReady() is false, so that every later compile is rejected.
C22_FailedMeansNotReady ==
    \A i \in Inits : initPc[i] = "failed" => ~IsReady

\* --------------------------------------------------------------- C23
\* C23: a compile call on a client that is not initialized, its input paths
\* valid, is rejected with the not-initialized error, whatever the output
\* directory holds, and sends no change notification.
C23_NotReadyRejected ==
    [][\A c \in Calls :
          (Steps(c) /\ pc[c] \in {"pre_readdir", "pre_unlink"} /\ ~IsReady
             /\ pc'[c] = "done")
             => result'[c].kind = "NotReady" /\ sent' = sent]_vars

\* --------------------------------------------------------------- C24
\* C24: the process the constructor spawned is the only one: once the
\* connection has closed it is never open again and no new process handle is
\* ever assigned; from then on the initialized flag is never set again, and a
\* compile call that comes to its ready check is turned away: it sends no
\* change notification and never enters the settle delay, so that it cannot
\* end in success.
C24_NoRestart ==
    [][/\ connOpen' => connOpen
       /\ serverProcess' => serverProcess
       /\ ~connOpen => ~isInitialized'
       /\ \A c \in Calls :
             (~connOpen /\ Steps(c) /\ pc[c] \in {"pre_readdir", "pre_unlink"})
                => /\ pc'[c] # "settle"
                   /\ sent' = sent
                   /\ pc'[c] = "done" => result'[c].kind \in {"NotReady", "CleanupError"}]_vars

\* A client that had been initialized has turned a call away after its
\* connection closed.
C24_Witness ==
    \E c \in Calls :
       /\ pc[c] = "done" /\ result[c].kind = "NotReady"
       /\ ~connOpen /\ initPc[1] = "answered"
       /\ \E n \in DOMAIN sent : sent[n].method = "initialized"

\* --------------------------------------------------------------- C25
\* C25: a cycle during which the connection closed, after its change
\* notification was sent, does not end in success.
C25_CloseFailsCycle ==
    [][\A c \in Calls :
          (pc[c] # "done" /\ pc'[c] = "done" /\ result'[c].kind = "Success")
             => connOpen]_vars

\* --------------------------------------------------------------- C26
\* The awaits of a cycle that has sent its change notification.
Notified == { "settle", "read_readdir", "read_file", "post_readdir", "post_unlink" }

C28_ResultIsOwn ==
    [][\A c \in Calls :
          (pc[c] # "done" /\ pc'[c] = "done") =>
             /\ result'[c].kind = "Success"
                   => \A i \in DOMAIN result'[c].output :
                         result'[c].output[i].cause = c
             /\ result'[c].kind = "CompilationError"
                   => \A i \in DOMAIN diagnostics :
                         (\E j \in DOMAIN diagnostics[i].diags :
                             diagnostics[i].diags[j].severity = ErrorSeverity)
                            => diagnostics[i].cause = c]_vars

\* --------------------------------------------------------------- C29
\* Where a call over one input path goes from the await it stands at, and
\* with what outcome, told from the state of the client, of the input and of
\* the output directory alone: the entry point has no part in it.
CycleNext(c) ==
    LET f == Head(todo[c])
        one == Len(todo[c]) = 1
        gone == ~dirOk \/ f = SubDir \/ outDir[f] = NoFile
        checked == IF isInitialized THEN << "settle", "none" >>
                                    ELSE << "done", "NotReady" >>
    IN  CASE pc[c] = "validate" ->
                 IF InputKind(f) = "missing" THEN << "done", "ENOENT" >>
                 ELSE IF InputKind(f) # "file" THEN << "done", "NotAFile" >>
                 ELSE << "pre_readdir", "none" >>
          [] pc[c] = "pre_readdir" ->
                 IF ~dirOk THEN << "done", "CleanupError" >>
                 ELSE IF Entries = <<>> THEN checked
                 ELSE << "pre_unlink", "none" >>
          [] pc[c] = "pre_unlink" ->
                 IF gone THEN << "done", "CleanupError" >>
                 ELSE IF one THEN checked
                 ELSE << "pre_unlink", "none" >>
          [] pc[c] = "settle" ->
                 IF HasErrorSeverity THEN << "done", "CompilationError" >>
                 ELSE << "read_readdir", "none" >>
          [] pc[c] = "read_readdir" ->
                 IF ~dirOk THEN << "done", "ReadDirError" >>
                 ELSE IF Entries = <<>> THEN << "post_readdir", "none" >>
                 ELSE << "read_file", "none" >>
          [] pc[c] = "read_file" ->
                 IF one THEN << "post_readdir", "none" >> ELSE << "read_file", "none" >>
          [] pc[c] = "post_readdir" ->
                 IF ~dirOk THEN << "done", "CleanupError" >>
                 ELSE IF Entries = <<>> THEN << "done", "Success" >>
                 ELSE << "post_unlink", "none" >>
          [] pc[c] = "post_unlink" ->
                 IF gone THEN << "done", "CleanupError" >>
                 ELSE IF one THEN << "done", "Success" >>
                 ELSE << "post_unlink", "none" >>

\* C29: compile(f) and compileFiles([f]) run the same state machine: each
\* step of either takes the call from its await to the one await or outcome
\* that the state of the client and of the directory determines; the step
\* that passes the ready check sends one notification with the one Changed
\* entry for f, and no other step sends anything.
C29_SameStateMachine ==
    [][\A c \in Calls :
          (Steps(c) /\ pc[c] \in CycleStates \cup {"validate"}) =>
             /\ << pc'[c], result'[c].kind >> = CycleNext(c)
             /\ sent' =
                  IF pc[c] \in {"pre_readdir", "pre_unlink"} /\ pc'[c] = "settle"
                    THEN Append(sent,
                           [method |-> "workspace/didChangeWatchedFiles",
                            changes |-> << [uri |-> "file://" \o req[c].paths[1],
                                            type |-> "Changed"] >>,
                            call |-> c])
                    ELSE sent]_vars

\* compileFiles, called with one path, has sent its one notification and
\* returned a file.
C29_Witness ==
    \E c \in Calls :
       /\ req[c] = [entry |-> "compileFiles", paths |-> <<FileA>>]
       /\ pc[c] = "done" /\ result[c].kind = "Success" /\ result[c].output # <<>>
       /\ ChangeCount(sent, c) = 1

\* --------------------------------------------------------------- C30
\* C30: a POST /compile whose compile cycle has completed without error is
\* answered with status 200 and a body {success: true, output} whose output
\* is not empty.
C30_SuccessIsAnswered200 ==
    \A c \in Calls :
       (pc[c] = "done" /\ req[c].entry = "compile" /\ result[c].kind = "Success")
          => LET response == CompileResponse(result[c])
             IN  /\ response.status = StatusOk
                 /\ response.body.success
                 /\ response.body.output # <<>>

\* --------------------------------------------------------------- C34
\* The awaits of getCompilationOutput and of the clear that follows it.
Reading == { "read_readdir", "read_file", "post_readdir", "post_unlink" }

\* C34: a cycle starts to read the output directory only in the step that
\* ends its settle delay, and only when no stored diagnostic has error
\* severity; a cycle that fails with a compilation error has read nothing,
\* reads nothing afterwards and returns no output.
C34_ReadOnlyAfterCleanCheck ==
    [][\A c \in Calls :
          /\ (pc[c] \notin Reading /\ pc'[c] \in Reading)
                => pc[c] = "settle" /\ ~HasErrorSeverity /\ pc'[c] = "read_readdir"
          /\ pc'[c] \notin Reading => outputs'[c] = <<>>
          /\ (pc[c] = "done" /\ result[c].kind = "CompilationError")
                => pc'[c] \in {"done", "returned"}
          /\ (pc'[c] = "done" /\ result'[c].kind = "CompilationError")
                => pc[c] \in {"settle", "done"}]_vars

\* A cycle has failed at its check while the output directory held a file the
\* process wrote for it.
C34_Witness ==
    \E c \in Calls :
       /\ pc[c] = "done" /\ result[c].kind = "CompilationError"
       /\ \E f \in OutFiles : outDir[f] = <<c>>

\* --------------------------------------------------------------- C31
\* The handler of request h takes it up in this step.
Arrives(h) == hpc[h] = "none" /\ hpc'[h] # "none"

\* The step neither starts a compile cycle for h nor gives h a temporary file,
\* and nothing is sent to the process.
TurnedAway(h) ==
    /\ hpc'[h] = "finished"
    /\ pc'[h] = "idle" /\ req'[h] = NoRequest
    /\ temps'[h] = <<>> /\ policies' = policies
    /\ sent' = sent

\* C31: the /compile handler answers a request that is not a POST with 405
\* 'Method Not Allowed. Use POST.'; otherwise one whose content type does not
\* start with text/plain with 400 'Content-Type must be text/plain'; otherwise
\* one with an empty body with 400 'Empty file content'; in each case no
\* compile cycle is started and no temporary file is created, then or later.
\* A compile call that throws is answered 400 with its message as the error.
C31_RejectionOrder ==
    [][\A h \in Calls :
          /\ (Arrives(h) /\ hreq'[h].url = "/compile") =>
               LET q == hreq'[h] IN
               /\ q.method # "POST" =>
                    /\ responses'[h] = << [status |-> 405, type |-> "application/json",
                                           body |-> [error |-> "Method Not Allowed. Use POST."]] >>
                    /\ TurnedAway(h)
               /\ (q.method = "POST" /\ ~StartsWith(q.ctype, "text/plain")) =>
                    /\ responses'[h] = << [status |-> 400, type |-> "application/json",
                                           body |-> [error |-> "Content-Type must be text/plain"]] >>
                    /\ TurnedAway(h)
               /\ (q.method = "POST" /\ StartsWith(q.ctype, "text/plain") /\ q.body = "") =>
                    /\ responses'[h] = << [status |-> 400, type |-> "application/json",
                                           body |-> [error |-> "Empty file content"]] >>
                    /\ TurnedAway(h)
          /\ (hpc[h] = "finished" /\ pc[h] = "idle" /\ temps[h] = <<>>) =>
               /\ hpc'[h] \in {"finished", "closed"}
               /\ pc'[h] = "idle" /\ temps'[h] = <<>>
          /\ (hpc[h] = "compiling" /\ hpc'[h] # "compiling"
                /\ hreq[h].url = "/compile" /\ result[h].kind # "Success") =>
               responses'[h] = << [status |-> 400, type |-> "application/json",
                                   body |-> [error |-> result[h].error]] >>]_vars

\* A GET with a JSON content type and no body has been answered 405: of the
\* three faults the method is reported.
C31_Witness ==
    \E h \in Calls :
       /\ hpc[h] = "finished"
       /\ hreq[h].url = "/compile" /\ hreq[h].method = "GET"
       /\ hreq[h].ctype = "application/json" /\ hreq[h].body = ""
       /\ responses[h][1].status = StatusMethodNotAllowed
       /\ policies = {} /\ pc[h] = "idle"

\* --------------------------------------------------------------- C32
\* C32: a request for a path other than /compile and /compile-multiple is
\* answered 404 with the plain text 'Not found', whatever its method; no
\* compile cycle is started for it, no temporary file is created and nothing
\* is sent to the process, then or later.
C32_OtherPathsNotFound ==
    [][\A h \in Calls :
          /\ (Arrives(h) /\ hreq'[h].url \notin {"/compile", "/compile-multiple"}) =>
               /\ responses'[h] = << [status |-> 404, type |-> "text/plain",
                                      body |-> "Not found"] >>
               /\ TurnedAway(h)
          /\ (hpc[h] = "finished" /\ hreq[h].url \notin {"/compile", "/compile-multiple"}) =>
               /\ hpc'[h] \in {"finished", "closed"}
               /\ pc'[h] = "idle" /\ temps'[h] = <<>>
               /\ responses'[h] \in {responses[h], <<>>}]_vars

\* A POST to /compile/ has been answered 404.
C32_Witness ==
    \E h \in Calls :
       /\ hpc[h] = "finished"
       /\ hreq[h].url = "/compile/" /\ hreq[h].method = "POST"
       /\ responses[h] = << NotFound >>
       /\ pc[h] = "idle"

\* --------------------------------------------------------------- C33
\* The bodies with no usable files array: empty, malformed, without a files
\* array, with one that is no array or is empty, or with an entry that lacks
\* its content.
NoUsableFiles ==
    { "", "{", "null", "{}", "{files:'a.alfa'}", "{files:[]}", "{files:[c]}",
      "{files:[a,c]}" }

\* C33: a POST to /compile-multiple with a JSON content type and a body that
\* is empty, malformed, without a files array, with a files value that is no
\* array or is empty, or with an entry lacking fileName or content, is
\* answered 400 with an error message, and no compile cycle is started for
\* it, also when an earlier entry was written to a temporary file.
C33_BadBodiesAnswered400 ==
    \A h \in Calls :
       (/\ hreq[h].url = "/compile-multiple" /\ hreq[h].method = "POST"
        /\ hreq[h].ctype = "application/json" /\ hreq[h].body \in NoUsableFiles)
          => /\ pc[h] = "idle"
             /\ hpc[h] \notin {"body", "write"} =>
                  /\ Len(responses[h]) = 1
                  /\ responses[h][1].status = 400
                  /\ responses[h][1].type = "application/json"

\* --------------------------------------------------------------- C35
\* The handshake messages the client has sent.
Handshake == { sent[n].method : n \in DOMAIN sent } \cap {"initialize", "initialized"}

\* C35: the server starts to listen only when initialize() has returned, the
\* handshake sent and the delay after it over; a request is taken up only by
\* a listening server; once initialize() has failed the server never
\* listens, and the service exits for that reason only and stays exited; a
\* compile call is started only for a request, on a listening server whose
\* client has completed its handshake.
C35_ListenAfterInitialize ==
    [][/\ (service # "listening" /\ service' = "listening") =>
            /\ \E i \in Inits : initPc[i] = "answered"
            /\ Handshake = {"initialize", "initialized"}
       /\ (\E i \in Inits : initPc[i] = "failed") => service' # "listening"
       /\ (service # "exited" /\ service' = "exited") => \E i \in Inits : initPc[i] = "failed"
       /\ service = "exited" => service' = "exited"
       /\ \A h \in Calls :
             /\ Arrives(h) => service = "listening"
             /\ (pc[h] = "idle" /\ pc'[h] # "idle") =>
                  /\ service = "listening" /\ hpc'[h] = "compiling"
                  /\ Handshake = {"initialize", "initialized"}
                  /\ \E i \in Inits : initPc[i] = "answered"]_vars

\* The cycle of an upload has notified the process, on a listening server.
C35_Witness ==
    \E h \in Calls :
       /\ service = "listening"
       /\ hpc[h] = "compiling" /\ pc[h] = "settle"
       /\ \E i \in Inits : initPc[i] = "answered"

\* --------------------------------------------------------------- C36
\* The temporary paths of request h.
TempsOf(h) == { temps[h][i] : i \in DOMAIN temps[h] }

\* The handler of h has a temporary file under way or in use: from the start
\* of its first write to the end of its compile call.
Uploading(h) == hpc[h] \in {"upload", "stat", "write", "compiling"}

\* The Deleted notification for the temporary files of h.
DeletedOf(h) ==
    [method |-> "workspace/didChangeWatchedFiles",
     changes |-> [i \in DOMAIN temps[h] |->
                    [uri |-> FileUri(Stored(temps[h][i])), type |-> "Deleted"]],
     call |-> 0]

\* C36: when the handler of a request finishes, none of the temporary files
\* it created is left; a temporary file is removed only when the compile call
\* of every request it was created for has ended; and a handler that has
\* removed its files finishes by sending, to a live process, one Deleted
\* notification for exactly its paths.
C36_TempFilesRemoved ==
    [][\A h \in Calls :
          /\ hpc'[h] = "finished" => TempsOf(h) \cap policies' = {}
          /\ \A p \in TempsOf(h) :
                (p \in policies /\ p \notin policies') => ~Uploading(h)
          /\ (hpc[h] \in {"rm", "delay"} /\ hpc'[h] = "finished" /\ connOpen) =>
                sent' = Append(sent, DeletedOf(h))]_vars

\* --------------------------------------------------------------- C37
\* C37: no two requests have a temporary path in common while both are in
\* flight.
C37_DistinctTempPaths ==
    \A h1, h2 \in Calls :
       (h1 # h2 /\ hpc[h1] \notin {"finished", "closed"} /\ hpc[h2] \notin {"finished", "closed"})
          => TempsOf(h1) \cap TempsOf(h2) = {}

\* --------------------------------------------------------------- C38
\* The handler of h has not written its response yet.
Unanswered(h) == hpc[h] \in {"none", "upload", "stat", "body", "write", "compiling"}

\* C38: a request has no response while its handler has not answered, and
\* exactly one from then on, through the cleanup and the handler's end; and
\* a request that was taken up and is not answered yet is in the hands of a
\* running service, which will answer it.
C38_AnsweredExactlyOnce ==
    \A h \in Calls :
       /\ Unanswered(h) => responses[h] = <<>>
       /\ hpc[h] \in {"rm", "delay", "finished"} => Len(responses[h]) = 1
       /\ (Unanswered(h) /\ hpc[h] # "none") => service = "listening"

====
